---- MODULE Spec2Model ----
(***************************************************************************)
(* Signed-distance fields attached to scenegraph nodes, and the ray        *)
(* marcher over them (src/nodes/field.rs).                                *)
(*                                                                         *)
(* Numbers.  An f32 is modelled as an integer count of thousandths: the    *)
(* value 0.001 (MIN_RAY_MARCH) is the integer 1 and one length unit is     *)
(* Unit.  TLC's integers are 32 bits wide, so f32::MAX is the stand-in     *)
(* F32_MAX, the greatest magnitude of the model's number line; sums that   *)
(* pass it stay there, as x + f32::MAX rounds back to f32::MAX for every   *)
(* x the marcher can hold.  Square roots are floored.  NaN is not          *)
(* modelled, except as the result of normalising the zero vector.          *)
(***************************************************************************)
EXTENDS Integers, Sequences, FiniteSets, TLC

VARIABLES
    \* ---- ray_march (one invocation) ----
    ray,            \* Ray: origin, direction (its space is the field's space)
    rfield,         \* the Field the ray is marched against
    ray_point,      \* local: the current sample point
    result,         \* RayMarchResult: distance, deepest_point_distance, ray_length, ray_steps
    rpc,            \* "off" | "loop" | "done": position in ray_march
    samples,        \* history: the local distances sampled, in order
    lens,           \* history: ray_length after each iteration
    \* ---- one BoxField shared by the threads that mutate and query it ----
    size,           \* BoxField.size: the Vec3 inside the Mutex
    lock,           \* the Mutex: 0 when free, else the thread holding it
    bpc,            \* each thread's position in its call
    bop,            \* each thread's call: its arguments and locals
    bcalls,         \* the number of calls made so far
    bsets,          \* the number of set_size calls that have returned
    sizeArgs,       \* history: the construction value and every set_size argument
    \* ---- nodes, their set-once slots and their registered handlers ----
    created,        \* the nodes Node::create has made
    scenegraph,     \* the nodes remote callers can address
    spatial,        \* node.spatial: NoSpatial or the node's frame
    field,          \* node.field: NoField or the Field it was set to
    methods,        \* node's local methods: <<name, handler>> pairs
    signals,        \* node's local signals: <<name, handler>> pairs
    apc,            \* each caller's position in its call
    aop,            \* each caller's call: its arguments, locals and result
    acalls,         \* the number of calls still to be made
    attachOk,       \* history: per node, the add_to calls that returned Ok(())
    atSet           \* history: per node, <<methods, signals>> when the slot was populated

rayVars == <<ray, rfield, ray_point, result, rpc, samples, lens>>

boxVars == <<size, lock, bpc, bop, bcalls, bsets, sizeArgs>>

nodeVars == <<created, scenegraph, spatial, field, methods, signals,
              apc, aop, acalls, attachOk, atSet>>

vars == <<ray, rfield, ray_point, result, rpc, samples, lens,
          size, lock, bpc, bop, bcalls, bsets, sizeArgs,
          created, scenegraph, spatial, field, methods, signals,
          apc, aop, acalls, attachOk, atSet>>

----------------------------------------------------------------------------
(* Program constants                                                       *)

MAX_RAY_STEPS == 1000

MIN_RAY_MARCH == 1

F32_MAX == 1000000000

MAX_RAY_MARCH == F32_MAX

Unit == 1000 * MIN_RAY_MARCH

MAX_RAY_LENGTH == 1000 * Unit

----------------------------------------------------------------------------
(* f32 and glam helpers                                                    *)

Abs(x) == IF x < 0 THEN -x ELSE x

Max(a, b) == IF a >= b THEN a ELSE b

Min(a, b) == IF a <= b THEN a ELSE b

\* f32 addition of two values whose exact sum is above -F32_MAX
FAdd(a, b) == Min(a + b, F32_MAX)

\* f32::clamp
Clamp(x, lo, hi) == Max(lo, Min(x, hi))

\* x * 0.5_f32 (the model's inputs are even, so the half is exact)
Half(x) == x \div 2

RECURSIVE SqrtSearch(_, _, _)
SqrtSearch(n, lo, hi) ==
    IF lo >= hi THEN lo
    ELSE LET mid == (lo + hi + 1) \div 2
         IN  IF mid * mid <= n THEN SqrtSearch(n, mid, hi)
             ELSE SqrtSearch(n, lo, mid - 1)

\* floor of the square root
ISqrt(n) == SqrtSearch(n, 0, Min(n, 46340))

vec3(x, y, z) == <<x, y, z>>

VAdd(a, b) == <<a[1] + b[1], a[2] + b[2], a[3] + b[3]>>

VSub(a, b) == <<a[1] - b[1], a[2] - b[2], a[3] - b[3]>>

\* vector * scalar, the vector's components being counted in whole units
VScale(dir, s) == <<dir[1] * s, dir[2] * s, dir[3] * s>>

NonZero(v) == Cardinality({i \in 1..Len(v) : v[i] # 0})

RECURSIVE SumSq(_)
SumSq(v) == IF v = <<>> THEN 0 ELSE Head(v) * Head(v) + SumSq(Tail(v))

RECURSIVE SumAbs(_)
SumAbs(v) == IF v = <<>> THEN 0 ELSE Abs(Head(v)) + SumAbs(Tail(v))

\* Vec3A::length / Vec2::length.  With at most one non-zero component the
\* root of the square is the magnitude itself.
Length(v) == IF NonZero(v) <= 1 THEN SumAbs(v) ELSE ISqrt(SumSq(v))

----------------------------------------------------------------------------
(* The three field kinds                                                   *)

\* a box distance that subtracts the whole extent, not half of it
BoxLocalDistanceFullExtent(s, p) ==
    LET q == vec3(Abs(p[1]) - s[1], Abs(p[2]) - s[2], Abs(p[3]) - s[3])
        v == vec3(Max(q[1], 0), Max(q[2], 0), Max(q[3], 0))
    IN  Length(v) + Min(Max(q[1], Max(q[2], q[3])), 0)

BoxLocalDistance(s, p) ==
    LET q == vec3(Abs(p[1]) - Half(s[1]),
                  Abs(p[2]) - Half(s[2]),
                  Abs(p[3]) - Half(s[3]))
        v == vec3(Max(q[1], 0), Max(q[2], 0), Max(q[3], 0))
    IN  Length(v) + Min(Max(q[1], Max(q[2], q[3])), 0)

CylinderLocalDistance(length, radius_param, p) ==
    LET radius == length
        d == <<Abs(Length(<<p[1], p[2]>>)) - radius, Abs(p[3]) - Half(radius)>>
    IN  Min(Max(d[1], d[2]), 0)
          + (IF d[1] >= 0 /\ d[2] >= 0 THEN Length(d) ELSE 0)

SphereLocalDistance(radius, p) == FAdd(Length(p), -radius)

BoxF(s) == [kind |-> "Box", size |-> s]

CylinderF(length, radius) == [kind |-> "Cylinder", length |-> length, radius |-> radius]

SphereF(radius) == [kind |-> "Sphere", radius |-> radius]

\* Deref for Field: dispatch on the variant
LocalDistance(f, p) ==
    CASE f.kind = "Box" -> BoxLocalDistance(f.size, p)
      [] f.kind = "Cylinder" -> CylinderLocalDistance(f.length, f.radius, p)
      [] f.kind = "Sphere" -> SphereLocalDistance(f.radius, p)

----------------------------------------------------------------------------
(* ray_march                                                               *)

\* The rays and fields of the model.  Every ray runs along the x axis
\* through the field's centre, in the field's own space, so that the
\* space-to-space matrix is the identity.
RayOrigins == {vec3(-3 * Unit, 0, 0), vec3(0, 0, 0)}

RayDirections == {vec3(1, 0, 0), vec3(-1, 0, 0), vec3(0, 0, 0)}

RayFields ==
    {SphereF(200), SphereF(2 * Unit), SphereF(-F32_MAX),
     BoxF(vec3(400, 400, 400)), CylinderF(2 * Unit, 200)}

\* no thread works on the box field
BoxIdle ==
    /\ size = vec3(0, 0, 0)
    /\ lock = 0
    /\ bpc = <<>>
    /\ bop = <<>>
    /\ bcalls = 0
    /\ bsets = 0
    /\ sizeArgs = {}

\* no node exists
NodesIdle ==
    /\ created = {}
    /\ scenegraph = {}
    /\ spatial = <<>>
    /\ field = <<>>
    /\ methods = <<>>
    /\ signals = <<>>
    /\ apc = <<>>
    /\ aop = <<>>
    /\ acalls = 0
    /\ attachOk = <<>>
    /\ atSet = <<>>

InitRay ==
    /\ BoxIdle
    /\ NodesIdle
    /\ ray \in [origin : RayOrigins, direction : RayDirections]
    /\ rfield \in RayFields
    /\ ray_point = ray.origin
    /\ result = [distance |-> F32_MAX, deepest_point_distance |-> 0,
                 ray_length |-> 0, ray_steps |-> 0]
    /\ rpc = "loop"
    /\ samples = <<>>
    /\ lens = <<>>

\* a marcher that stops at the first hit, as early-exit sphere tracing does
LoopCondEarlyExit(r) ==
    /\ r.ray_steps < MAX_RAY_STEPS
    /\ r.ray_length < MAX_RAY_LENGTH
    /\ r.distance > 0

\* the while condition
LoopCond(r) == r.ray_steps < MAX_RAY_STEPS /\ r.ray_length < MAX_RAY_LENGTH

\* one iteration of the loop body
RayStep ==
    /\ rpc = "loop"
    /\ LoopCond(result)
    /\ LET distance == LocalDistance(rfield, ray_point)
           march_distance == Clamp(distance, MIN_RAY_MARCH, MAX_RAY_MARCH)
           new_length == FAdd(result.ray_length, march_distance)
       IN  /\ ray_point' = VAdd(ray_point, VScale(ray.direction, march_distance))
           /\ result' = [distance |-> Min(distance, result.distance),
                         deepest_point_distance |->
                             IF result.distance > distance THEN new_length
                             ELSE result.deepest_point_distance,
                         ray_length |-> new_length,
                         ray_steps |-> result.ray_steps + 1]
           /\ samples' = Append(samples, distance)
           /\ lens' = Append(lens, new_length)
    /\ UNCHANGED <<ray, rfield, rpc>>
    /\ UNCHANGED boxVars
    /\ UNCHANGED nodeVars

\* the loop condition fails: ray_march returns result
RayReturn ==
    /\ rpc = "loop"
    /\ ~LoopCond(result)
    /\ rpc' = "done"
    /\ UNCHANGED <<ray, rfield, ray_point, result, samples, lens>>
    /\ UNCHANGED boxVars
    /\ UNCHANGED nodeVars

NextRay == RayStep \/ RayReturn

SpecRay == InitRay /\ [][NextRay]_vars

\* ray_march runs on its caller's thread and is never suspended
SpecRayFair == SpecRay /\ WF_vars(NextRay)

----------------------------------------------------------------------------
(* BoxField: set_size, local_distance and the default local_normal, called *)
(* by several threads on one field.  The Vec3 behind the Mutex is written  *)
(* and read one component at a time.                                       *)

NumThreads == 2

MaxCalls == 3

Threads == 1..NumThreads

\* the extents the concurrent callers construct and set
BoxSizes ==
    {vec3(2 * Unit, 2 * Unit, 2 * Unit), vec3(2 * Unit, 4 * Unit, 6 * Unit),
     vec3(-2 * Unit, 0, 4 * Unit)}

\* the extents a single caller constructs and sets: every component
\* positive, zero or negative
Extents == {-2 * Unit, 0, 2 * Unit, 4 * Unit}

WideSizes == {vec3(x, y, z) : x \in Extents, y \in Extents, z \in Extents}

\* the local query points
BoxPoints == {vec3(0, 0, 0), vec3(Unit, 0, 0), vec3(2 * Unit, 0, 0)}

\* the gradient step the remote adapters pass: 0.001_f32
Epsilon == MIN_RAY_MARCH

NoOp == [name |-> "none"]

\* no thread works on the ray marcher
RayIdle ==
    /\ ray = [origin |-> vec3(0, 0, 0), direction |-> vec3(0, 0, 0)]
    /\ rfield = SphereF(0)
    /\ ray_point = vec3(0, 0, 0)
    /\ result = [distance |-> F32_MAX, deepest_point_distance |-> 0,
                 ray_length |-> 0, ray_steps |-> 0]
    /\ rpc = "off"
    /\ samples = <<>>
    /\ lens = <<>>

\* after BoxField { size: Mutex::new(size) }, with the callers T idle
BoxConstructed(T, S) ==
    /\ size \in S
    /\ lock = 0
    /\ bpc = [t \in T |-> "idle"]
    /\ bop = [t \in T |-> NoOp]
    /\ bcalls = 0
    /\ bsets = 0

InitBox ==
    /\ RayIdle
    /\ NodesIdle
    /\ BoxConstructed(Threads, BoxSizes)
    /\ sizeArgs = {size}

\* (a single caller's history of arguments is not kept)
InitBoxOne ==
    /\ RayIdle
    /\ NodesIdle
    /\ BoxConstructed({1}, WideSizes)
    /\ sizeArgs = {}

\* a lock() that excludes nobody
MutexFreeNoExclusion(t) == TRUE

\* parking_lot::Mutex::lock returns once no thread holds the mutex
MutexFree(t) == lock = 0

\* the points at which p +/- e is sampled one axis at a time
LocalNormalPointsOffset(p, r) ==
    <<p, VAdd(p, vec3(r, 0, 0)), VAdd(p, vec3(0, r, 0)), VAdd(p, vec3(0, 0, r))>>

\* the points local_normal passes to local_distance, in order:
\* p, then vec3a(e.x, e.y, e.y), vec3a(e.y, e.x, e.y), vec3a(e.y, e.y, e.x)
\* with e = vec2(r, 0)
LocalNormalPoints(p, r) ==
    LET e == <<r, 0>>
    IN  <<p, vec3(e[1], e[2], e[2]), vec3(e[2], e[1], e[2]), vec3(e[2], e[2], e[1])>>

\* n = vec3a(d, d, d) - vec3a(the three other samples)
LocalNormalRaw(vals) ==
    VSub(vec3(vals[1], vals[1], vals[1]), vec3(vals[2], vals[3], vals[4]))

\* a vector that may have no finite value
Finite(v) == [nan |-> FALSE, v |-> v]

NaNVec == [nan |-> TRUE, v |-> vec3(0, 0, 0)]

\* Vec3A::normalize, in thousandths: the zero vector has no direction
Normalize(v) ==
    IF Length(v) = 0 THEN NaNVec
    ELSE Finite(<<(v[1] * Unit) \div Length(v), (v[2] * Unit) \div Length(v),
                  (v[3] * Unit) \div Length(v)>>)

\* BoxField::set_size(size) is called
CallSetSize(t, S) ==
    /\ bpc[t] = "idle"
    /\ bcalls < MaxCalls
    /\ \E s \in S :
          bop' = [bop EXCEPT ![t] = [name |-> "set_size", arg |-> s, i |-> 1]]
    /\ bpc' = [bpc EXCEPT ![t] = "lock"]
    /\ bcalls' = bcalls + 1
    /\ UNCHANGED <<size, lock, bsets>>
    /\ UNCHANGED rayVars
    /\ UNCHANGED nodeVars

\* an evaluation call: the points it will sample, and nothing sampled yet
EvalOp(name, p, r, pts) ==
    [name |-> name, p |-> p, r |-> r, pts |-> pts, i |-> 1,
     sz |-> vec3(0, 0, 0), at |-> <<>>, seen |-> <<>>, vals |-> <<>>,
     n |-> <<>>, out |-> <<>>]

\* BoxField::local_distance(p) is called
CallLocalDistance(t, P) ==
    /\ bpc[t] = "idle"
    /\ bcalls < MaxCalls
    /\ \E p \in P :
          bop' = [bop EXCEPT ![t] = EvalOp("local_distance", p, 0, <<p>>)]
    /\ bpc' = [bpc EXCEPT ![t] = "lock"]
    /\ bcalls' = bcalls + 1
    /\ UNCHANGED <<size, lock, bsets, sizeArgs>>
    /\ UNCHANGED rayVars
    /\ UNCHANGED nodeVars

\* FieldTrait::local_normal(p, r) is called on the box
CallLocalNormal(t, P) ==
    /\ bpc[t] = "idle"
    /\ bcalls < MaxCalls
    /\ \E p \in P :
          bop' = [bop EXCEPT ![t] =
                     EvalOp("local_normal", p, Epsilon, LocalNormalPoints(p, Epsilon))]
    /\ bpc' = [bpc EXCEPT ![t] = "lock"]
    /\ bcalls' = bcalls + 1
    /\ UNCHANGED <<size, lock, bsets, sizeArgs>>
    /\ UNCHANGED rayVars
    /\ UNCHANGED nodeVars

\* self.size.lock()
SizeLock(t) ==
    /\ bpc[t] = "lock"
    /\ MutexFree(t)
    /\ lock' = t
    /\ bpc' = [bpc EXCEPT ![t] = IF bop[t].name = "set_size" THEN "write" ELSE "read"]
    /\ UNCHANGED <<size, bop, bcalls, bsets, sizeArgs>>
    /\ UNCHANGED rayVars
    /\ UNCHANGED nodeVars

\* *guard = size: one component is stored
SizeWrite(t) ==
    /\ bpc[t] = "write"
    /\ size' = [size EXCEPT ![bop[t].i] = bop[t].arg[bop[t].i]]
    /\ bop' = [bop EXCEPT ![t].i = @ + 1]
    /\ bpc' = [bpc EXCEPT ![t] = IF bop[t].i = 3 THEN "unlock" ELSE "write"]
    /\ UNCHANGED <<lock, bcalls, bsets, sizeArgs>>
    /\ UNCHANGED rayVars
    /\ UNCHANGED nodeVars

\* the guard is dropped and set_size returns
SetSizeReturn(t) ==
    /\ bpc[t] = "unlock"
    /\ lock' = IF lock = t THEN 0 ELSE lock
    /\ bpc' = [bpc EXCEPT ![t] = "idle"]
    /\ bop' = [bop EXCEPT ![t] = NoOp]
    /\ bsets' = bsets + 1
    /\ UNCHANGED <<size, bcalls, sizeArgs>>
    /\ UNCHANGED rayVars
    /\ UNCHANGED nodeVars

\* local_distance reads size.x, size.y, size.z through the guard
SizeRead(t) ==
    /\ bpc[t] = "read"
    /\ bop' = [bop EXCEPT ![t].sz[bop[t].i] = size[bop[t].i],
                          ![t].i = IF bop[t].i = 3 THEN 1 ELSE bop[t].i + 1]
    /\ bpc' = [bpc EXCEPT ![t] = IF bop[t].i = 3 THEN "eval" ELSE "read"]
    /\ UNCHANGED <<size, lock, bcalls, bsets, sizeArgs>>
    /\ UNCHANGED rayVars
    /\ UNCHANGED nodeVars

\* local_distance computes its value, drops the guard and returns it
LocalDistanceReturn(t) ==
    /\ bpc[t] = "eval"
    /\ LET o == bop[t]
           at == Head(o.pts)
       IN  /\ bop' = [bop EXCEPT ![t] =
                        [o EXCEPT !.at = at,
                                  !.seen = Append(o.seen, at),
                                  !.vals = Append(o.vals, BoxLocalDistance(o.sz, at)),
                                  !.pts = Tail(o.pts)]]
           /\ bpc' = [bpc EXCEPT ![t] =
                        IF Tail(o.pts) # <<>> THEN "lock"
                        ELSE IF o.name = "local_normal" THEN "norm" ELSE "ret"]
    /\ lock' = IF lock = t THEN 0 ELSE lock
    /\ UNCHANGED <<size, bcalls, bsets, sizeArgs>>
    /\ UNCHANGED rayVars
    /\ UNCHANGED nodeVars

\* local_normal has its four samples: n, then n.normalize()
LocalNormalReturn(t) ==
    /\ bpc[t] = "norm"
    /\ LET n == LocalNormalRaw(bop[t].vals)
       IN  bop' = [bop EXCEPT ![t].n = n, ![t].out = Normalize(n)]
    /\ bpc' = [bpc EXCEPT ![t] = "ret"]
    /\ UNCHANGED <<size, lock, bcalls, bsets, sizeArgs>>
    /\ UNCHANGED rayVars
    /\ UNCHANGED nodeVars

\* the caller of local_distance or local_normal has its value
EvalReturn(t) ==
    /\ bpc[t] = "ret"
    /\ bpc' = [bpc EXCEPT ![t] = "idle"]
    /\ bop' = [bop EXCEPT ![t] = NoOp]
    /\ UNCHANGED <<size, lock, bcalls, bsets, sizeArgs>>
    /\ UNCHANGED rayVars
    /\ UNCHANGED nodeVars

\* several threads mutate and query the field
NextBox ==
    \E t \in Threads :
        \/ CallSetSize(t, BoxSizes) /\ sizeArgs' = sizeArgs \cup {bop'[t].arg}
        \/ CallLocalDistance(t, BoxPoints)
        \/ SizeLock(t)
        \/ SizeWrite(t)
        \/ SetSizeReturn(t)
        \/ SizeRead(t)
        \/ LocalDistanceReturn(t)
        \/ EvalReturn(t)

SpecBox == InitBox /\ [][NextBox]_vars

\* one caller makes its calls one after another
NextBoxOne ==
    \/ CallSetSize(1, WideSizes) /\ UNCHANGED sizeArgs
    \/ CallLocalDistance(1, BoxPoints)
    \/ CallLocalNormal(1, BoxPoints)
    \/ SizeLock(1)
    \/ SizeWrite(1)
    \/ SetSizeReturn(1)
    \/ SizeRead(1)
    \/ LocalDistanceReturn(1)
    \/ LocalNormalReturn(1)
    \/ EvalReturn(1)

SpecBoxOne == InitBoxOne /\ [][NextBoxOne]_vars

----------------------------------------------------------------------------
(* Nodes: the set-once spatial and field slots, the registered handlers,   *)
(* field attachment (add_to), the createXField signals of the interface    *)
(* node and the remote calls on field nodes.  Every frame's transform is   *)
(* the identity: a query point is already in the field's space.            *)

MaxNodes == 1

\* the node create_interface makes: in the scenegraph, without a spatial
InterfaceNode == 0

\* a node of the scenegraph that carries a spatial and no field
RootNode == 1

NodeIds == 0..(1 + MaxNodes)

\* an empty OnceCell
NoSpatial == -1

NoField == [kind |-> "none"]

NoNode == -1

\* no call in progress
NoCall == [op |-> "none"]

Kinds == {"Box", "Cylinder", "Sphere"}

\* flexbuffers values
Str(v) == [t |-> "str", v |-> v]

F32(v) == [t |-> "f32", v |-> v]

Vec(v) == [t |-> "vec", v |-> v]

\* str::parse::<f64>().unwrap_or_default()
StrParse(v) == IF v = "7" THEN 7 * Unit ELSE 0

\* flexbuffers Reader::as_f32: a float is itself, a string is parsed, a
\* vector gives its length
FlexAsF32(x) ==
    CASE x.t = "f32" -> x.v
      [] x.t = "str" -> StrParse(x.v)
      [] x.t = "vec" -> Len(x.v) * Unit

\* flex_to_vec3!: Some(v) for a vector of three floats, else None (<<>>)
FlexToVec3(x) == IF x.t = "vec" /\ Len(x.v) = 3 THEN x.v ELSE <<>>

\* scenegraph.get_node(path)
GetNode(path) ==
    CASE path = "/hmd" /\ RootNode \in scenegraph -> RootNode
      [] path = "/field" /\ InterfaceNode \in scenegraph -> InterfaceNode
      [] OTHER -> NoNode

\* HashMap insert: a handler registered under a name replaces the old one
AddLocal(map, name, handler) ==
    {e \in map : e[1] # name} \cup {<<name, handler>>}

\* add_field_methods
AddFieldMethods(map) ==
    AddLocal(AddLocal(AddLocal(map, "distance", "field_distance_flex"),
                      "normal", "field_normal_flex"),
             "closest_point", "field_closest_point_flex")

FieldMethods ==
    {<<"distance", "field_distance_flex">>, <<"normal", "field_normal_flex">>,
     <<"closest_point", "field_closest_point_flex">>}

\* the signal each kind's add_to registers
MutationSignal(kind) ==
    CASE kind = "Box" -> <<"setSize", "BoxField::set_size_flex">>
      [] kind = "Cylinder" -> <<"setSize", "CylinderField::set_size_flex">>
      [] kind = "Sphere" -> <<"setRadius", "SphereField::set_radius_flex">>

MutationSignals == {MutationSignal(k) : k \in Kinds}

\* the signal create_interface registers for each kind
CreateSignal(kind) ==
    CASE kind = "Box" -> <<"createBoxField", "create_box_field_flex">>
      [] kind = "Cylinder" -> <<"createCylinderField", "create_cylinder_field_flex">>
      [] kind = "Sphere" -> <<"createSphereField", "create_sphere_field_flex">>

\* the Field value with its frame link
WithSpace(f, sp) == [space |-> sp] @@ f

\* the parameters a direct caller of add_to passes, per kind
DirectField(kind) ==
    CASE kind = "Box" -> BoxF(vec3(2 * Unit, 2 * Unit, 2 * Unit))
      [] kind = "Cylinder" -> CylinderF(4 * Unit, Unit)
      [] kind = "Sphere" -> SphereF(Unit)

Position == Vec(vec3(0, 0, 0))

Rotation == Vec(<<0, 0, 0, Unit>>)

\* the positional arguments remote callers send to createXField
CreateData(kind) ==
    CASE kind = "Box" ->
            {<<Str(nm), Str(pa), Position, Rotation, Vec(vec3(2 * Unit, 2 * Unit, 2 * Unit))>> :
                nm \in {"a", "7"}, pa \in {"/hmd", "/nope"}}
      [] kind = "Cylinder" ->
            {<<Str(nm), Str(pa), Position, Rotation, F32(4 * Unit), F32(Unit)>> :
                nm \in {"a", "7"}, pa \in {"/hmd", "/nope"}}
      [] kind = "Sphere" ->
            {<<Str(nm), Str(pa), Position, F32(Unit)>> :
                nm \in {"a", "7"}, pa \in {"/hmd", "/nope"}}

\* the arguments remote callers send to distance, normal, closest_point
QueryData == {<<Str(ref), Vec(vec3(2 * Unit, 0, 0))>> : ref \in {"/hmd", "/field", "/nope"}}

\* the arguments remote callers send to setSize and setRadius
SignalData(name) ==
    IF name = "setSize"
    THEN {Vec(vec3(4 * Unit, 4 * Unit, 4 * Unit)), Vec(<<6 * Unit, 2 * Unit>>)}
    ELSE {F32(2 * Unit)}

\* after create_interface, with the callers T idle and budget calls to make
NodesCreated(T, budget) ==
    /\ created = {InterfaceNode, RootNode}
    /\ scenegraph = {InterfaceNode, RootNode}
    /\ spatial = [n \in NodeIds |-> IF n = RootNode THEN RootNode ELSE NoSpatial]
    /\ field = [n \in NodeIds |-> NoField]
    /\ methods = [n \in NodeIds |-> {}]
    /\ signals = [n \in NodeIds |->
                    IF n = InterfaceNode THEN {CreateSignal(k) : k \in Kinds} ELSE {}]
    /\ apc = [t \in T |-> "idle"]
    /\ aop = [t \in T |-> NoCall]
    /\ acalls = budget
    /\ attachOk = [n \in NodeIds |-> 0]
    /\ atSet = [n \in NodeIds |-> <<>>]

Init == RayIdle /\ BoxIdle /\ NodesCreated(Threads, MaxCalls)

InitSeq == RayIdle /\ BoxIdle /\ NodesCreated({1}, MaxCalls)

\* a first ensure! that lets every node through
HasSpatialUnchecked(n) == TRUE

\* node.spatial.get().is_some()
HasSpatial(n) == spatial[n] # NoSpatial

\* a second ensure! that lets every node through
FieldEmptyUnchecked(n) == TRUE

\* node.field.get().is_none()
FieldEmpty(n) == field[n] = NoField

\* XField::add_to(node, parameters) is called by code of the server
CallAddTo(t) ==
    /\ apc[t] = "idle"
    /\ acalls > 0
    /\ \E kind \in Kinds, n \in created :
          aop' = [aop EXCEPT ![t] =
                    [op |-> "add_to", kind |-> kind, node |-> n, f |-> DirectField(kind),
                     hadSpatial |-> FALSE, hadField |-> FALSE, res |-> "none"]]
    /\ apc' = [apc EXCEPT ![t] = "ensure_spatial"]
    /\ acalls' = acalls - 1
    /\ UNCHANGED <<created, scenegraph, spatial, field, methods, signals, attachOk, atSet>>
    /\ UNCHANGED rayVars
    /\ UNCHANGED boxVars

\* the first ensure!; hadSpatial records what the spatial slot held when it
\* was read
EnsureSpatial(t) ==
    /\ apc[t] = "ensure_spatial"
    /\ LET seen == spatial[aop[t].node] # NoSpatial
       IN  IF HasSpatial(aop[t].node)
           THEN /\ apc' = [apc EXCEPT ![t] = "ensure_field"]
                /\ aop' = [aop EXCEPT ![t].hadSpatial = seen]
           ELSE /\ apc' = [apc EXCEPT ![t] = "ret"]
                /\ aop' = [aop EXCEPT ![t].hadSpatial = seen,
                                      ![t].res = "Internal: Node does not have a spatial attached!"]
    /\ UNCHANGED <<created, scenegraph, spatial, field, methods, signals,
                   acalls, attachOk, atSet>>
    /\ UNCHANGED rayVars
    /\ UNCHANGED boxVars

\* the second ensure!; hadField records what the field slot held when it
\* was read
EnsureField(t) ==
    /\ apc[t] = "ensure_field"
    /\ LET seen == field[aop[t].node] # NoField
       IN  IF FieldEmpty(aop[t].node)
           THEN /\ apc' = [apc EXCEPT ![t] = "construct"]
                /\ aop' = [aop EXCEPT ![t].hadField = seen]
           ELSE /\ apc' = [apc EXCEPT ![t] = "ret"]
                /\ aop' = [aop EXCEPT ![t].hadField = seen,
                                      ![t].res = "Internal: Node already has a field attached!"]
    /\ UNCHANGED <<created, scenegraph, spatial, field, methods, signals,
                   acalls, attachOk, atSet>>
    /\ UNCHANGED rayVars
    /\ UNCHANGED boxVars

\* XField { space: node.spatial.get().unwrap().clone(), parameters }
Construct(t) ==
    /\ apc[t] = "construct"
    /\ IF spatial[aop[t].node] = NoSpatial
       THEN /\ apc' = [apc EXCEPT ![t] = "ret"]
            /\ aop' = [aop EXCEPT ![t].res = "panic"]
       ELSE /\ apc' = [apc EXCEPT ![t] = "methods"]
            /\ aop' = [aop EXCEPT ![t].f = WithSpace(@, spatial[aop[t].node])]
    /\ UNCHANGED <<created, scenegraph, spatial, field, methods, signals,
                   acalls, attachOk, atSet>>
    /\ UNCHANGED rayVars
    /\ UNCHANGED boxVars

\* field.add_field_methods(node)
RegisterMethods(t) ==
    /\ apc[t] = "methods"
    /\ methods' = [methods EXCEPT ![aop[t].node] = AddFieldMethods(@)]
    /\ apc' = [apc EXCEPT ![t] = "signal"]
    /\ UNCHANGED <<created, scenegraph, spatial, field, signals, aop,
                   acalls, attachOk, atSet>>
    /\ UNCHANGED rayVars
    /\ UNCHANGED boxVars

\* node.add_local_signal("setSize" or "setRadius", the kind's handler)
RegisterSignal(t) ==
    /\ apc[t] = "signal"
    /\ LET sig == MutationSignal(aop[t].kind)
       IN  signals' = [signals EXCEPT ![aop[t].node] = AddLocal(@, sig[1], sig[2])]
    /\ apc' = [apc EXCEPT ![t] = "set"]
    /\ UNCHANGED <<created, scenegraph, spatial, field, methods, aop,
                   acalls, attachOk, atSet>>
    /\ UNCHANGED rayVars
    /\ UNCHANGED boxVars

\* let _ = node.field.set(Arc::new(field)); Ok(())
\* OnceCell::set stores only into an empty cell; its result is dropped
FieldSet(t) ==
    /\ apc[t] = "set"
    /\ LET n == aop[t].node
       IN  /\ IF field[n] = NoField
              THEN /\ field' = [field EXCEPT ![n] = aop[t].f]
                   /\ atSet' = [atSet EXCEPT ![n] = <<methods[n], signals[n]>>]
              ELSE UNCHANGED <<field, atSet>>
           /\ attachOk' = [attachOk EXCEPT ![n] = @ + 1]
    /\ aop' = [aop EXCEPT ![t].res = "Ok"]
    /\ apc' = [apc EXCEPT ![t] = "ret"]
    /\ UNCHANGED <<created, scenegraph, spatial, methods, signals, acalls>>
    /\ UNCHANGED rayVars
    /\ UNCHANGED boxVars

\* the call returns its result to its caller
Return(t) ==
    /\ apc[t] = "ret"
    /\ apc' = [apc EXCEPT ![t] = "idle"]
    /\ aop' = [aop EXCEPT ![t] = NoCall]
    /\ UNCHANGED <<created, scenegraph, spatial, field, methods, signals,
                   acalls, attachOk, atSet>>
    /\ UNCHANGED rayVars
    /\ UNCHANGED boxVars

\* get_spatial_parent_flex: the node the id names, if it carries a spatial
GetSpatialParent(path) ==
    IF GetNode(path) # NoNode /\ spatial[GetNode(path)] # NoSpatial
    THEN GetNode(path) ELSE NoNode

\* let length = flex_vec.idx(0).as_f32(); let radius = flex_vec.idx(1).as_f32();
CylinderFromData(data) == CylinderF(FlexAsF32(data[1]), FlexAsF32(data[2]))

\* the parameters createXField decodes from its arguments; <<>> when the
\* size of a box is no vector of three floats
DecodeField(kind, data) ==
    CASE kind = "Box" ->
            IF FlexToVec3(data[5]) = <<>> THEN <<>> ELSE BoxF(FlexToVec3(data[5]))
      [] kind = "Cylinder" -> CylinderFromData(data)
      [] kind = "Sphere" -> SphereF(FlexAsF32(data[4]))

\* Node::create gives the next unused node
FreshNode == CHOOSE n \in NodeIds \ created : \A m \in NodeIds \ created : n <= m

\* createBoxField, createCylinderField or createSphereField is dispatched on
\* the interface node: the node is created and the arguments are decoded
CallCreate(t) ==
    /\ apc[t] = "idle"
    /\ acalls > 0
    /\ InterfaceNode \in scenegraph
    /\ NodeIds \ created # {}
    /\ \E kind \in Kinds :
          /\ CreateSignal(kind) \in signals[InterfaceNode]
          /\ \E data \in CreateData(kind) :
                LET call == [op |-> "create", kind |-> kind, node |-> FreshNode,
                             data |-> data, f |-> DecodeField(kind, data),
                             hadSpatial |-> FALSE, hadField |-> FALSE, res |-> "none"]
                IN  IF GetSpatialParent(data[2].v) = NoNode
                    THEN /\ aop' = [aop EXCEPT ![t] =
                                      [call EXCEPT !.res = "Err: parent not found"]]
                         /\ apc' = [apc EXCEPT ![t] = "ret"]
                         /\ UNCHANGED created
                    ELSE IF FlexToVec3(data[3]) = <<>> \/ call.f = <<>>
                    THEN /\ aop' = [aop EXCEPT ![t] =
                                      [call EXCEPT !.res = "Err: argument invalid"]]
                         /\ apc' = [apc EXCEPT ![t] = "ret"]
                         /\ UNCHANGED created
                    ELSE /\ aop' = [aop EXCEPT ![t] = call]
                         /\ apc' = [apc EXCEPT ![t] = "scenegraph"]
                         /\ created' = created \cup {FreshNode}
    /\ acalls' = acalls - 1
    /\ UNCHANGED <<scenegraph, spatial, field, methods, signals, attachOk, atSet>>
    /\ UNCHANGED rayVars
    /\ UNCHANGED boxVars

\* let node = node.add_to_scenegraph();
CreateAddToScenegraph(t) ==
    /\ apc[t] = "scenegraph"
    /\ scenegraph' = scenegraph \cup {aop[t].node}
    /\ apc' = [apc EXCEPT ![t] = "spatial_add"]
    /\ UNCHANGED <<created, spatial, field, methods, signals, aop,
                   acalls, attachOk, atSet>>
    /\ UNCHANGED rayVars
    /\ UNCHANGED boxVars

\* Spatial::add_to(&node, Some(parent), transform)?; then XField::add_to is
\* entered
CreateSpatialAdd(t) ==
    /\ apc[t] = "spatial_add"
    /\ LET n == aop[t].node
       IN  IF spatial[n] = NoSpatial
           THEN /\ spatial' = [spatial EXCEPT ![n] = n]
                /\ aop' = aop
                /\ apc' = [apc EXCEPT ![t] = "ensure_spatial"]
           ELSE /\ UNCHANGED spatial
                /\ aop' = [aop EXCEPT ![t].res = "Err: Node already has a spatial"]
                /\ apc' = [apc EXCEPT ![t] = "ret"]
    /\ UNCHANGED <<created, scenegraph, field, methods, signals,
                   acalls, attachOk, atSet>>
    /\ UNCHANGED rayVars
    /\ UNCHANGED boxVars

Neg3(n) == IF n.nan THEN NaNVec ELSE Finite(<<-n.v[1], -n.v[2], -n.v[3]>>)

\* a unit vector (in thousandths) times an f32
Times(n, d) ==
    IF n.nan THEN NaNVec
    ELSE Finite(<<(n.v[1] * d) \div Unit, (n.v[2] * d) \div Unit, (n.v[3] * d) \div Unit>>)

\* FieldTrait::local_normal, overridden by SphereField
LocalNormal(f, p, r) ==
    IF f.kind = "Sphere" THEN Neg3(Normalize(p))
    ELSE Normalize(LocalNormalRaw(
             [i \in 1..4 |-> LocalDistance(f, LocalNormalPoints(p, r)[i])]))

\* FieldTrait::local_closest_point, overridden by SphereField
LocalClosestPoint(f, p, r) ==
    IF f.kind = "Sphere" THEN Times(Normalize(p), f.radius)
    ELSE IF LocalNormal(f, p, r).nan THEN NaNVec
    ELSE Finite(VSub(p, Times(LocalNormal(f, p, r), LocalDistance(f, p)).v))

\* what field_distance_flex, field_normal_flex or field_closest_point_flex
\* returns for the node n and the arguments data
QueryResult(n, name, data) ==
    IF GetNode(data[1].v) = NoNode
    THEN [res |-> "Err: Reference space node does not exist"]
    ELSE IF spatial[GetNode(data[1].v)] = NoSpatial
    THEN [res |-> "Err: Reference space node does not have a spatial"]
    ELSE IF FlexToVec3(data[2]) = <<>>
    THEN [res |-> "Err: Point is invalid"]
    ELSE IF field[n] = NoField
    THEN [res |-> "panic"]
    ELSE [res |-> "Ok",
          val |-> CASE name = "distance" ->
                          Finite(<<LocalDistance(field[n], FlexToVec3(data[2]))>>)
                    [] name = "normal" ->
                          LocalNormal(field[n], FlexToVec3(data[2]), Epsilon)
                    [] name = "closest_point" ->
                          LocalClosestPoint(field[n], FlexToVec3(data[2]), Epsilon)]

\* a remote caller calls distance, normal or closest_point on a node of the
\* scenegraph that has the method registered
CallMethod(t) ==
    /\ apc[t] = "idle"
    /\ acalls > 0
    /\ \E n \in scenegraph, m \in FieldMethods, data \in QueryData :
          /\ m \in methods[n]
          /\ aop' = [aop EXCEPT ![t] =
                       [op |-> "method", node |-> n, name |-> m[1], data |-> data]
                          @@ QueryResult(n, m[1], data)]
    /\ apc' = [apc EXCEPT ![t] = "ret"]
    /\ acalls' = acalls - 1
    /\ UNCHANGED <<created, scenegraph, spatial, field, methods, signals, attachOk, atSet>>
    /\ UNCHANGED rayVars
    /\ UNCHANGED boxVars

\* what the handler of a mutation signal does to the node's field, and the
\* result it returns: set_size_flex of BoxField and of CylinderField,
\* set_radius_flex of SphereField
SignalEffect(n, handler, data) ==
    CASE handler = "BoxField::set_size_flex" ->
            IF FlexToVec3(data) = <<>> THEN [res |-> "Err: Size is invalid", f |-> field[n]]
            ELSE IF field[n] = NoField THEN [res |-> "panic", f |-> field[n]]
            ELSE IF field[n].kind = "Box"
            THEN [res |-> "Ok", f |-> [field[n] EXCEPT !.size = FlexToVec3(data)]]
            ELSE [res |-> "Ok", f |-> field[n]]
      [] handler = "CylinderField::set_size_flex" ->
            IF data.t # "vec" THEN [res |-> "Err: not a vector", f |-> field[n]]
            ELSE IF field[n] = NoField THEN [res |-> "panic", f |-> field[n]]
            ELSE IF field[n].kind = "Cylinder"
            THEN [res |-> "Ok", f |-> [field[n] EXCEPT !.length = data.v[1],
                                                       !.radius = data.v[2]]]
            ELSE [res |-> "Ok", f |-> field[n]]
      [] handler = "SphereField::set_radius_flex" ->
            IF field[n] = NoField THEN [res |-> "panic", f |-> field[n]]
            ELSE IF field[n].kind = "Sphere"
            THEN [res |-> "Ok", f |-> [field[n] EXCEPT !.radius = FlexAsF32(data)]]
            ELSE [res |-> "Ok", f |-> field[n]]

\* a remote caller sends setSize or setRadius to a node of the scenegraph
\* that has the signal registered
CallSignal(t) ==
    /\ apc[t] = "idle"
    /\ acalls > 0
    /\ \E n \in scenegraph, sig \in MutationSignals :
          /\ sig \in signals[n]
          /\ \E data \in SignalData(sig[1]) :
                /\ aop' = [aop EXCEPT ![t] =
                             [op |-> "signal", node |-> n, name |-> sig[1],
                              handler |-> sig[2], data |-> data,
                              res |-> SignalEffect(n, sig[2], data).res]]
                /\ field' = [field EXCEPT ![n] = SignalEffect(n, sig[2], data).f]
    /\ apc' = [apc EXCEPT ![t] = "ret"]
    /\ acalls' = acalls - 1
    /\ UNCHANGED <<created, scenegraph, spatial, methods, signals, attachOk, atSet>>
    /\ UNCHANGED rayVars
    /\ UNCHANGED boxVars

NextNodes ==
    \E t \in Threads :
        \/ CallAddTo(t)
        \/ CallCreate(t)
        \/ CreateAddToScenegraph(t)
        \/ CreateSpatialAdd(t)
        \/ EnsureSpatial(t)
        \/ EnsureField(t)
        \/ Construct(t)
        \/ RegisterMethods(t)
        \/ RegisterSignal(t)
        \/ FieldSet(t)
        \/ CallMethod(t)
        \/ CallSignal(t)
        \/ Return(t)

\* the steps of a single caller
NextNodesSeq ==
    \E t \in {1} :
        \/ CallAddTo(t)
        \/ CallCreate(t)
        \/ CreateAddToScenegraph(t)
        \/ CreateSpatialAdd(t)
        \/ EnsureSpatial(t)
        \/ EnsureField(t)
        \/ Construct(t)
        \/ RegisterMethods(t)
        \/ RegisterSignal(t)
        \/ FieldSet(t)
        \/ CallMethod(t)
        \/ CallSignal(t)
        \/ Return(t)

\* several threads attach fields and serve remote calls
Spec == Init /\ [][NextNodes]_vars

\* one thread makes the calls one after another
SpecSeq == InitSeq /\ [][NextNodesSeq]_vars

----------------------------------------------------------------------------
(* Claims about field attachment and the remote calls                      *)

\* C1: when attach attempts of any kinds run concurrently against one node
\* with a spatial and an empty field slot, exactly one populates the slot and
\* reports success; the others report failure and leave the node's
\* registered methods and signals as the winner left them.
C1_SingleWinner ==
    \A n \in NodeIds :
        /\ attachOk[n] <= 1
        /\ field[n] # NoField => atSet[n] = <<methods[n], signals[n]>>

\* a caller's attach attempt (add_to, called directly or by createXField)
\* that has returned
Attempted(t) ==
    apc[t] = "ret" /\ aop[t].op \in {"add_to", "create"} /\ aop[t].hadSpatial

\* C2: with the calls made one after another, the first attach on a node
\* with a spatial succeeds and every later attach on it returns an error;
\* from then on the node's field keeps the kind chosen at its construction
\* and its frame link, and its parameters change only by the mutation signal
\* of its own kind.
C2_FirstFieldStays ==
    /\ [](\A n \in NodeIds : attachOk[n] <= 1)
    /\ [](\A t \in DOMAIN apc :
             Attempted(t) =>
                 IF aop[t].hadField
                 THEN aop[t].res = "Internal: Node already has a field attached!"
                 ELSE aop[t].res = "Ok" /\ field[aop[t].node] # NoField)
    /\ [][\A n \in NodeIds :
             /\ field[n] = NoField /\ field'[n] # NoField =>
                   \E t \in DOMAIN apc :
                       /\ apc[t] = "set" /\ aop[t].node = n
                       /\ field'[n].kind = aop[t].kind
                       /\ field'[n].space = spatial[n]
             /\ field[n] # NoField =>
                   /\ field'[n] # NoField
                   /\ field'[n].kind = field[n].kind
                   /\ field'[n].space = field[n].space
                   /\ field'[n] # field[n] =>
                         \E t \in DOMAIN apc :
                             /\ apc[t] = "idle" /\ apc'[t] = "ret"
                             /\ aop'[t].op = "signal" /\ aop'[t].node = n
                             /\ <<aop'[t].name, aop'[t].handler>>
                                   = MutationSignal(field[n].kind)]_vars

\* a later attach has returned its error on a node whose Box field, attached
\* first with size (2,2,2), has since been resized by setSize
C2_Witness ==
    \E t \in DOMAIN apc :
        /\ Attempted(t)
        /\ aop[t].hadField
        /\ aop[t].res = "Internal: Node already has a field attached!"
        /\ attachOk[aop[t].node] = 1
        /\ field[aop[t].node] =
              WithSpace(BoxF(vec3(4 * Unit, 4 * Unit, 4 * Unit)), spatial[aop[t].node])

\* C3: an attach attempt on a node without a spatial returns the
\* precondition error and changes nothing: the field slot stays empty and
\* neither query methods nor a mutation signal are registered on the node.
C3_NoSpatialNoAttach ==
    /\ \A t \in DOMAIN apc :
          apc[t] = "ret" /\ aop[t].op = "add_to" /\ ~aop[t].hadSpatial =>
              aop[t].res = "Internal: Node does not have a spatial attached!"
    /\ \A n \in NodeIds :
          spatial[n] = NoSpatial =>
              /\ field[n] = NoField
              /\ methods[n] = {}
              /\ signals[n] \cap MutationSignals = {}

\* add_to has returned its error for the interface node, which has no spatial
C3_Witness ==
    \E t \in DOMAIN apc :
        /\ apc[t] = "ret" /\ aop[t].op = "add_to" /\ ~aop[t].hadSpatial
        /\ aop[t].node = InterfaceNode
        /\ aop[t].res = "Internal: Node does not have a spatial attached!"

\* C6: every remote query call ends in a success value or a returned error:
\* in every state in which distance, normal or closest_point is registered
\* on a node, the node's field slot is populated, so that no call aborts on
\* an empty slot.
C6_QueriesNeverAbort ==
    /\ \A n \in NodeIds : methods[n] \cap FieldMethods # {} => field[n] # NoField
    /\ \A t \in DOMAIN apc : aop[t].op = "method" => aop[t].res # "panic"

\* C7: after a successful createCylinderField(name, parent, position,
\* rotation, length, radius), the node's field is a Cylinder whose length is
\* the fifth positional argument and whose radius is the sixth.
C7_CylinderArguments ==
    \A t \in DOMAIN apc :
        (/\ apc[t] = "ret" /\ aop[t].op = "create"
         /\ aop[t].kind = "Cylinder" /\ aop[t].res = "Ok")
        => /\ field[aop[t].node].kind = "Cylinder"
           /\ field[aop[t].node].length = FlexAsF32(aop[t].data[5])
           /\ field[aop[t].node].radius = FlexAsF32(aop[t].data[6])

----------------------------------------------------------------------------
(* Claims about BoxField and the default local_normal                      *)

\* a thread whose local_distance has read the whole extent vector
HasRead(t) == bop[t].name = "local_distance" /\ bpc[t] \in {"eval", "ret"}

\* C5: whatever the interleaving of set_size and local_distance calls, the
\* extent vector a local_distance evaluation uses is, as a whole, the
\* construction value or the argument of one set_size call, never a mix of
\* components written by different calls.
C5_NoTornExtent ==
    \A t \in DOMAIN bpc : HasRead(t) => bop[t].sz \in sizeArgs

\* a reader holds the whole vector while a set_size waits for the mutex, two
\* different set_size calls having been made
C5_Witness ==
    \E t \in DOMAIN bpc, u \in DOMAIN bpc :
        /\ HasRead(t) /\ bpc[t] = "eval"
        /\ bop[u].name = "set_size" /\ bpc[u] = "lock"
        /\ Cardinality(sizeArgs) = 3
        /\ bop[t].sz \in sizeArgs

Min3(v) == Min(v[1], Min(v[2], v[3]))

NegCount(v) == Cardinality({i \in 1..3 : v[i] < 0})

BoxOrigin == vec3(0, 0, 0)

C9_NormalSamplesAroundPoint ==
    \A t \in DOMAIN bpc :
        bpc[t] = "ret" /\ bop[t].name = "local_normal" =>
            /\ bop[t].seen = LocalNormalPointsOffset(bop[t].p, bop[t].r)
            /\ Len(bop[t].vals) = 4
            /\ bop[t].n = VSub(vec3(bop[t].vals[1], bop[t].vals[1], bop[t].vals[1]),
                               vec3(bop[t].vals[2], bop[t].vals[3], bop[t].vals[4]))

----------------------------------------------------------------------------
(* Claims about ray_march                                                  *)

\* C4: ray_march terminates; it leaves its loop only once ray_steps has
\* reached MAX_RAY_STEPS or ray_length has reached MAX_RAY_LENGTH, so an
\* iteration that sampled a distance <= 0 (a hit) is followed by the next
\* iteration like any other; ray_steps never exceeds MAX_RAY_STEPS.
C4_RayMarchBudget ==
    /\ [](rpc = "done" =>
            \/ result.ray_steps >= MAX_RAY_STEPS
            \/ result.ray_length >= MAX_RAY_LENGTH)
    /\ [](result.ray_steps <= MAX_RAY_STEPS)
    /\ [][(/\ rpc = "loop"
           /\ result.ray_steps < MAX_RAY_STEPS
           /\ result.ray_length < MAX_RAY_LENGTH)
            => (rpc' = "loop" /\ result'.ray_steps = result.ray_steps + 1)]_vars
    /\ <>(rpc = "done")

\* a march that hit the surface (a sample <= 0) before its last iteration and
\* still ran to the step budget
C4_Witness ==
    /\ rpc = "done"
    /\ result.ray_steps = MAX_RAY_STEPS
    /\ result.ray_length < MAX_RAY_LENGTH
    /\ \E i \in 1..(Len(samples) - 1) : samples[i] <= 0

\* C10: after every iteration and on return, result.distance is the minimum
\* of the distances sampled so far; deepest_point_distance is ray_length as
\* it stood after the advance of the earliest iteration that sampled that
\* minimum; every advance is max(sample, 0.001) and ray_length is their sum;
\* 0 <= deepest_point_distance <= ray_length and
\* ray_length >= 0.001 * ray_steps.
C10_MinTracking ==
    samples # <<>> =>
        LET n == Len(samples)
        IN  /\ n = result.ray_steps
            /\ \E i \in 1..n : samples[i] = result.distance
            /\ \A i \in 1..n : samples[i] >= result.distance
            /\ \E i \in 1..n :
                   /\ samples[i] = result.distance
                   /\ \A j \in 1..(i - 1) : samples[j] > result.distance
                   /\ result.deepest_point_distance = lens[i]
            /\ \A i \in 1..n :
                   lens[i] = (IF i = 1 THEN 0 ELSE lens[i - 1])
                               + Max(samples[i], MIN_RAY_MARCH)
            /\ result.ray_length = lens[n]
            /\ 0 <= result.deepest_point_distance
            /\ result.deepest_point_distance <= result.ray_length
            /\ result.ray_length >= MIN_RAY_MARCH * result.ray_steps

====
